---- MODULE Spec2Model ----
(***************************************************************************)
(* ipp-usb: the per-device lifecycle controller (device.go) and the IPP    *)
(* attribute decoder (ipp.go).                                             *)
(*                                                                         *)
(* Go strings are modelled as sequences of one-character strings, so that  *)
(* Split, TrimPrefix, HasPrefix and Join are computed, not assumed.        *)
(* A Go slice is a record [isnil, elems]: a nil slice and an empty non-nil *)
(* slice are different values, as they are for the `== nil` tests of the   *)
(* code.  A function that can panic returns [panic, val].                  *)
(***************************************************************************)
EXTENDS Integers, Sequences, FiniteSets, TLC

VARIABLES
    \* ---- ipp.go ----
    msg,            \* goipp.Message.Printer: the raw attribute sequence
    attrs,          \* ippAttrs: map name -> goipp.Values
    ipc,            \* position of the decoder run
    ret,            \* value returned by the function under study
    \* ---- device.go ----
    pc,             \* position inside NewDevice / lifecycle of the Device
    conf,           \* Conf.DNSSdEnable
    UsbTransport,   \* dev.UsbTransport: "nil" or "live"
    HTTPProxy,      \* dev.HTTPProxy: "nil" or "live"
    DNSSdPublisher, \* dev.DNSSdPublisher: "nil" or "live"
    listener,       \* local variable listener: "nil" or "live"
    State,          \* dev.State (DevState): DNSSdName, DNSSdOverride, HTTPPort
    info,           \* UsbDeviceInfo: the fallback DNS-SD name
    ippinfo,        \* *IppPrinterInfo: "nil" or [DNSSdName, IppSvcIndex]
    dnssdName,      \* local variable dnssdName
    dnssdServices,  \* local variable dnssdServices
    err,            \* local variable err
    result,         \* what NewDevice returned: [dev, err]
    published,      \* the service set handed to NewDNSSdPublisher
    calls,          \* calls made on the collaborators, in order
    nops,           \* number of Shutdown/Close calls made so far
    shutdownErr     \* what the last Shutdown returned

ippvars == <<msg, attrs, ipc, ret>>
devvars == <<pc, conf, UsbTransport, HTTPProxy, DNSSdPublisher, listener,
             State, info, ippinfo, dnssdName, dnssdServices, err, result,
             published, calls, nops, shutdownErr>>
vars == <<msg, attrs, ipc, ret, pc, conf, UsbTransport, HTTPProxy,
          DNSSdPublisher, listener, State, info, ippinfo, dnssdName,
          dnssdServices, err, result, published, calls, nops, shutdownErr>>

(***************************************************************************)
(* Bounds                                                                  *)
(***************************************************************************)
MaxEntries == 2     \* values of "media-size-supported"
MaxAttrs == 3       \* raw attributes of the name-resolution input
MaxOps == 3         \* Shutdown/Close calls on one Device

(***************************************************************************)
(* String literals                                                         *)
(***************************************************************************)
s_empty == <<>>
s_none == <<"n","o","n","e">>
s_rp == <<"i","p","p","/","p","r","i","n","t">>
s_50 == <<"5","0">>
s_1 == <<"1">>
s_T == <<"T">>
s_F == <<"F">>
s_URF == <<"U","R","F">>
s_MDL == <<"M","D","L">>
s_MFG == <<"M","F","G">>
s_CMD == <<"C","M","D">>
s_one == <<"o","n","e">>
s_two == <<"t","w","o">>
s_urnuuid == <<"u","r","n",":","u","u","i","d",":">>
s_lt_legal_A4 == <<"<","l","e","g","a","l","-","A","4">>
s_legal_A4 == <<"l","e","g","a","l","-","A","4">>
s_tabloid_A3 == <<"t","a","b","l","o","i","d","-","A","3">>
s_isoC_A2 == <<"i","s","o","C","-","A","2">>
s_gt_isoC_A2 == <<">","i","s","o","C","-","A","2">>
s_AcmeX1 == <<"A","c","m","e"," ","X","1">>
s_Office == <<"O","f","f","i","c","e">>
s_Lab == <<"L","a","b">>

(***************************************************************************)
(* Go runtime: results, panics, slices                                     *)
(***************************************************************************)
Ret(v) == [panic |-> FALSE, val |-> v]
Panic == [panic |-> TRUE, val |-> <<>>]
NilSlice == [isnil |-> TRUE, elems |-> <<>>]
MkSlice(s) == [isnil |-> FALSE, elems |-> s]

(***************************************************************************)
(* package strings                                                         *)
(***************************************************************************)
HasPrefix(s, p) == Len(s) >= Len(p) /\ SubSeq(s, 1, Len(p)) = p

TrimPrefix(s, p) == IF HasPrefix(s, p) THEN SubSeq(s, Len(p) + 1, Len(s)) ELSE s

RECURSIVE SplitFrom(_, _, _, _, _)
SplitFrom(s, c, i, cur, acc) ==
    IF i > Len(s) THEN Append(acc, cur)
    ELSE IF s[i] = c THEN SplitFrom(s, c, i + 1, <<>>, Append(acc, cur))
    ELSE SplitFrom(s, c, i + 1, Append(cur, s[i]), acc)

\* strings.Split(s, c) for a one-character separator
Split(s, c) == SplitFrom(s, c, 1, <<>>, <<>>)

\* strings.SplitN(s, c, 2)
SplitN2(s, c) ==
    IF \E i \in 1..Len(s) : s[i] = c
    THEN LET k == CHOOSE i \in 1..Len(s) :
                     s[i] = c /\ \A j \in 1..(i - 1) : s[j] # c
         IN  <<SubSeq(s, 1, k - 1), SubSeq(s, k + 1, Len(s))>>
    ELSE <<s>>

RECURSIVE JoinFrom(_, _, _)
JoinFrom(strs, sep, i) ==
    IF i > Len(strs) THEN <<>>
    ELSE IF i = Len(strs) THEN strs[i]
    ELSE strs[i] \o sep \o JoinFrom(strs, sep, i + 1)

\* strings.Join(strs, sep)
Join(strs, sep) == JoinFrom(strs, sep, 1)

(***************************************************************************)
(* TXT record                                                              *)
(***************************************************************************)
TxtAdd(txt, key, value) == Append(txt, [Key |-> key, Value |-> value])

TxtAddNotEmpty(txt, key, value) == IF value # <<>> THEN TxtAdd(txt, key, value) ELSE txt

(***************************************************************************)
(* goipp values: [T |-> type, V |-> payload]                               *)
(***************************************************************************)
VString(s) == [T |-> "String", V |-> s]
VInteger(n) == [T |-> "Integer", V |-> n]
VBoolean(b) == [T |-> "Boolean", V |-> b]
VRange(lo, up) == [T |-> "Range", V |-> [Lower |-> lo, Upper |-> up]]
VCollection(as) == [T |-> "Collection", V |-> as]
Attr(name, values) == [Name |-> name, Values |-> values]

(***************************************************************************)
(* newIppDecoder: scan from the end to the beginning, overwriting          *)
(***************************************************************************)
RECURSIVE newIppDecoderFrom(_, _, _)
newIppDecoderFrom(printer, i, m) ==
    IF i < 1 THEN m
    ELSE newIppDecoderFrom(printer, i - 1,
            [n \in (DOMAIN m) \cup {printer[i].Name} |->
                IF n = printer[i].Name THEN printer[i].Values ELSE m[n]])

newIppDecoder(printer) == newIppDecoderFrom(printer, Len(printer), [n \in {} |-> <<>>])

(***************************************************************************)
(* getAttr: first name whose attribute exists and whose FIRST value has    *)
(* the requested type; v[0] is read without a length check.                *)
(***************************************************************************)
RECURSIVE getAttrFrom(_, _, _, _)
getAttrFrom(as, t, names, i) ==
    IF i > Len(names) THEN Ret(NilSlice)
    ELSE IF names[i] \in DOMAIN as
         THEN IF Len(as[names[i]]) = 0 THEN Panic
              ELSE IF as[names[i]][1].T = t THEN Ret(MkSlice(as[names[i]]))
              ELSE getAttrFrom(as, t, names, i + 1)
         ELSE getAttrFrom(as, t, names, i + 1)

getAttr(as, t, names) == getAttrFrom(as, t, names, 1)

\* getStrings: make([]string, len(vals)) is never nil; the type assertion
\* vals[i].(goipp.String) has no fallback
getStrings(as, names) ==
    LET r == getAttr(as, "String", names)
    IN  IF r.panic THEN Panic
        ELSE IF \E i \in 1..Len(r.val.elems) : r.val.elems[i].T # "String" THEN Panic
        ELSE Ret(MkSlice([i \in 1..Len(r.val.elems) |-> r.val.elems[i].V]))

\* strSingle: strs[0] is read whenever strs is not nil
strSingle(as, names) ==
    LET r == getStrings(as, names)
    IN  IF r.panic THEN Panic
        ELSE IF r.val.isnil THEN Ret(s_empty)
        ELSE IF Len(r.val.elems) = 0 THEN Panic
        ELSE Ret(r.val.elems[1])

strJoined(as, names) ==
    LET r == getStrings(as, names)
    IN  IF r.panic THEN Panic ELSE Ret(Join(r.val.elems, <<",">>))

strBrackets(as, names) ==
    LET r == strSingle(as, names)
    IN  IF r.panic THEN Panic
        ELSE IF r.val # <<>> THEN Ret(<<"(">> \o r.val \o <<")">>)
        ELSE Ret(r.val)

getBool(as, names) ==
    LET r == getAttr(as, "Boolean", names)
    IN  IF r.panic THEN Panic
        ELSE IF r.val.isnil THEN Ret(s_empty)
        ELSE IF r.val.elems[1].V THEN Ret(s_T)
        ELSE Ret(s_F)

getDuplex(as) ==
    LET r == getAttr(as, "String", <<"sides-supported">>)
        vals == r.val.elems
    IN  IF r.panic THEN Panic
        ELSE IF \E i \in 1..Len(vals) : vals[i].T # "String" THEN Panic
        ELSE LET one == \E i \in 1..Len(vals) : HasPrefix(vals[i].V, s_one)
                 two == \E i \in 1..Len(vals) :
                            ~HasPrefix(vals[i].V, s_one) /\ HasPrefix(vals[i].V, s_two)
             IN  IF two THEN Ret(s_T)
                 ELSE IF one THEN Ret(s_F)
                 ELSE Ret(s_empty)

(***************************************************************************)
(* getPaperMax                                                             *)
(***************************************************************************)
legal_a4_x == 21600
legal_a4_y == 35400
tabloid_a3_x == 27900
tabloid_a3_y == 43200
isoC_a2_x == 43200
isoC_a2_y == 55900

\* The inner loop runs from the end to the beginning, so the FIRST attribute
\* of the collection with that name is the one kept; without any, the result
\* is the zero Attribute, which has no values.
dimAttr(coll, name) ==
    IF \E i \in 1..Len(coll) : coll[i].Name = name
    THEN coll[CHOOSE i \in 1..Len(coll) :
                 coll[i].Name = name /\ \A j \in 1..(i - 1) : coll[j].Name # name]
    ELSE Attr("", <<>>)

\* The type switch on Values[0]: Integer and Range update the maximum,
\* any other type leaves it alone.
dimMax(attr, cur) ==
    IF Len(attr.Values) > 0
    THEN CASE attr.Values[1].T = "Integer" ->
                 IF attr.Values[1].V > cur THEN attr.Values[1].V ELSE cur
           [] attr.Values[1].T = "Range" ->
                 IF attr.Values[1].V.Upper > cur THEN attr.Values[1].V.Upper ELSE cur
           [] OTHER -> cur
    ELSE cur

\* The loop over the values: collection.(goipp.Collection) has no fallback.
RECURSIVE paperDims(_, _, _, _)
paperDims(vals, i, x_dim_max, y_dim_max) ==
    IF i > Len(vals) THEN Ret(<<x_dim_max, y_dim_max>>)
    ELSE IF vals[i].T # "Collection" THEN Panic
    ELSE paperDims(vals, i + 1,
                   dimMax(dimAttr(vals[i].V, "x-dimension"), x_dim_max),
                   dimMax(dimAttr(vals[i].V, "y-dimension"), y_dim_max))

paperClassStrict(x_dim_max, y_dim_max) ==
    CASE x_dim_max > isoC_a2_x /\ y_dim_max > isoC_a2_y -> s_gt_isoC_A2
      [] x_dim_max > isoC_a2_x /\ y_dim_max > isoC_a2_y -> s_isoC_A2
      [] x_dim_max > tabloid_a3_x /\ y_dim_max > tabloid_a3_y -> s_tabloid_A3
      [] x_dim_max > legal_a4_x /\ y_dim_max > legal_a4_y -> s_legal_A4
      [] OTHER -> s_lt_legal_A4

\* The final switch: the first case that matches.
paperClass(x_dim_max, y_dim_max) ==
    IF x_dim_max > isoC_a2_x /\ y_dim_max > isoC_a2_y THEN s_gt_isoC_A2
    ELSE IF x_dim_max >= isoC_a2_x /\ y_dim_max >= isoC_a2_y THEN s_isoC_A2
    ELSE IF x_dim_max >= tabloid_a3_x /\ y_dim_max >= tabloid_a3_y THEN s_tabloid_A3
    ELSE IF x_dim_max >= legal_a4_x /\ y_dim_max >= legal_a4_y THEN s_legal_A4
    ELSE s_lt_legal_A4

getPaperMax(as) ==
    LET r == getAttr(as, "Collection", <<"media-size-supported">>)
    IN  IF r.panic THEN Panic
        ELSE IF r.val.isnil THEN Ret(s_empty)
        ELSE LET d == paperDims(r.val.elems, 1, 0, 0)
             IN  IF d.panic THEN Panic
                 ELSE IF d.val[1] = 0 \/ d.val[2] = 0 THEN Ret(s_empty)
                 ELSE Ret(paperClass(d.val[1], d.val[2]))

(***************************************************************************)
(* Decode                                                                  *)
(***************************************************************************)
\* The IEEE 1284 device ID: forward scan, a later key overwrites an earlier
\* one, a segment without a colon is dropped.
RECURSIVE devidFrom(_, _, _)
devidFrom(ids, i, m) ==
    IF i > Len(ids) THEN m
    ELSE LET keyval == SplitN2(ids[i], ":")
         IN  IF Len(keyval) = 2
             THEN devidFrom(ids, i + 1,
                      [k \in (DOMAIN m) \cup {keyval[1]} |->
                          IF k = keyval[1] THEN keyval[2] ELSE m[k]])
             ELSE devidFrom(ids, i + 1, m)

parseDevid(s) == devidFrom(Split(s, ";"), 1, [k \in {} |-> <<>>])

\* devid[key]: the empty string for a missing key
devidGet(devid, key) == IF key \in DOMAIN devid THEN devid[key] ELSE s_empty

Decode(as) ==
    LET r_name    == strSingle(as, <<"printer-dns-sd-name", "printer-info",
                                     "printer-make-and-model">>)
        r_devid   == strSingle(as, <<"printer-device-id">>)
        r_mopria  == strSingle(as, <<"mopria-certified">>)
        r_kind    == strJoined(as, <<"printer-kind">>)
        r_paper   == getPaperMax(as)
        r_urf     == strJoined(as, <<"urf-supported">>)
        r_uuid    == strSingle(as, <<"printer-uuid">>)
        r_color   == getBool(as, <<"color-supported">>)
        r_duplex  == getDuplex(as)
        r_note    == strSingle(as, <<"printer-location">>)
        r_ty      == strSingle(as, <<"printer-make-and-model">>)
        r_product == strBrackets(as, <<"printer-make-and-model">>)
        r_pdl     == strJoined(as, <<"document-format-supported">>)
    IN  IF \/ r_name.panic \/ r_devid.panic \/ r_mopria.panic \/ r_kind.panic
           \/ r_paper.panic \/ r_urf.panic \/ r_uuid.panic \/ r_color.panic
           \/ r_duplex.panic \/ r_note.panic \/ r_ty.panic \/ r_product.panic
           \/ r_pdl.panic
        THEN Panic
        ELSE LET devid == parseDevid(r_devid.val)
                 t1  == TxtAdd(<<>>, "air", s_none)
                 t2  == TxtAddNotEmpty(t1, "mopria-certified", r_mopria.val)
                 t3  == TxtAdd(t2, "rp", s_rp)
                 t4  == TxtAdd(t3, "priority", s_50)
                 t5  == TxtAddNotEmpty(t4, "kind", r_kind.val)
                 t6  == TxtAddNotEmpty(t5, "PaperMax", r_paper.val)
                 t7  == IF r_urf.val # <<>>
                        THEN TxtAddNotEmpty(t6, "URF", r_urf.val)
                        ELSE TxtAddNotEmpty(t6, "URF", devidGet(devid, s_URF))
                 t8  == TxtAddNotEmpty(t7, "UUID", TrimPrefix(r_uuid.val, s_urnuuid))
                 t9  == TxtAddNotEmpty(t8, "Color", r_color.val)
                 t10 == TxtAddNotEmpty(t9, "Duplex", r_duplex.val)
                 t11 == TxtAdd(t10, "note", r_note.val)
                 t12 == TxtAdd(t11, "qtotal", s_1)
                 t13 == TxtAddNotEmpty(t12, "usb_MDL", devidGet(devid, s_MDL))
                 t14 == TxtAddNotEmpty(t13, "usb_MFG", devidGet(devid, s_MFG))
                 t15 == TxtAddNotEmpty(t14, "usb_CMD", devidGet(devid, s_CMD))
                 t16 == TxtAddNotEmpty(t15, "ty", r_ty.val)
                 t17 == TxtAddNotEmpty(t16, "product", r_product.val)
                 t18 == TxtAddNotEmpty(t17, "pdl", r_pdl.val)
                 t19 == TxtAdd(t18, "txtvers", s_1)
             IN  Ret([dnssd_name |-> r_name.val,
                      info |-> [Type |-> "_ipp._tcp", Txt |-> t19]])

(***************************************************************************)
(* Inputs of the decoder                                                   *)
(***************************************************************************)
SeqsUpTo(S, n) == UNION {[1..k -> S] : k \in 0..n}

XInts == {-1, 0, 21599, 21600, 27900, 43200, 43201}
YInts == {0, 35400, 43200, 55900, 55901}

XOpts == {<<>>} \cup {<<Attr("x-dimension", <<VInteger(v)>>)>> : v \in XInts}
                \cup {<<Attr("x-dimension", <<VRange(0, 43201)>>)>>}
YOpts == {<<>>} \cup {<<Attr("y-dimension", <<VInteger(v)>>)>> : v \in YInts}
                \cup {<<Attr("y-dimension", <<VRange(0, 35400)>>)>>}

\* one entry of "media-size-supported": a collection with at most one x and
\* one y dimension, a collection that repeats x-dimension, a collection whose
\* dimension is a string, or a value that is not a collection at all
PaperValues ==
    {VCollection(x \o y) : x \in XOpts, y \in YOpts}
    \cup {VCollection(<<Attr("x-dimension", <<VInteger(21600)>>),
                        Attr("x-dimension", <<VInteger(43201)>>),
                        Attr("y-dimension", <<VInteger(55901)>>)>>),
          VCollection(<<Attr("x-dimension", <<VString(s_1)>>),
                        Attr("y-dimension", <<VInteger(35400)>>)>>),
          VInteger(21600)}

PaperInputs ==
    {<<>>} \cup {<<Attr("media-size-supported", v)>> : v \in SeqsUpTo(PaperValues, MaxEntries)}

NameAttrNames == {"printer-dns-sd-name", "printer-info", "printer-make-and-model"}

NameValues ==
    {<<VString(s_AcmeX1)>>, <<VString(s_Office)>>, <<VString(s_empty)>>,
     <<VInteger(1)>>, <<>>, <<VString(s_Lab), VInteger(1)>>}

NameInputs ==
    SeqsUpTo({Attr(n, v) : n \in NameAttrNames, v \in NameValues}, MaxAttrs)

s_devid == <<"M","F","G",":","A",";","M","D","L",":","X",";","G",";",
             "C","M","D",":","P",";","M","F","G",":","B">>
s_uuid == s_urnuuid \o <<"a","b">>

\* A complete printer response; the variant decides the shape of
\* "sides-supported": plain strings, a string followed by an integer, or no
\* value at all.
SampleAttrs(variant) ==
    << Attr("printer-dns-sd-name", <<VString(s_Office)>>),
       Attr("printer-info", <<VString(s_Lab)>>),
       Attr("printer-make-and-model", <<VString(s_AcmeX1)>>),
       Attr("printer-device-id", <<VString(s_devid)>>),
       Attr("mopria-certified", <<VString(<<"1",".","3">>)>>),
       Attr("printer-kind", <<VString(<<"d","o","c">>), VString(<<"e","n","v">>)>>),
       Attr("media-size-supported",
            <<VCollection(<<Attr("x-dimension", <<VInteger(21600)>>),
                            Attr("y-dimension", <<VInteger(35400)>>)>>)>>),
       Attr("urf-supported", <<VString(<<"W","8">>)>>),
       Attr("printer-uuid", <<VString(s_uuid)>>),
       Attr("color-supported", <<VBoolean(TRUE)>>),
       Attr("sides-supported",
            CASE variant = "plain" -> <<VString(s_one \o <<"-">>), VString(s_two \o <<"-">>)>>
              [] variant = "mixed" -> <<VString(s_one \o <<"-">>), VInteger(1)>>
              [] OTHER -> <<>>),
       Attr("printer-location", <<VString(s_empty)>>),
       Attr("document-format-supported", <<VString(<<"a","/","b">>)>>) >>

RECURSIVE Pick(_, _, _)
Pick(s, keep, i) ==
    IF i > Len(s) THEN <<>>
    ELSE (IF i \in keep THEN <<s[i]>> ELSE <<>>) \o Pick(s, keep, i + 1)

DecodeInputs ==
    {Pick(SampleAttrs(v), keep, 1) :
        v \in {"plain", "mixed", "empty"}, keep \in SUBSET (1..Len(SampleAttrs("plain")))}

(***************************************************************************)
(* The device is not part of a decoder run, and the reverse                *)
(***************************************************************************)
NoState == [DNSSdName |-> s_empty, DNSSdOverride |-> s_empty, HTTPPort |-> 0]
NoResult == [dev |-> "none", err |-> "none"]
NilIppInfo == [nil |-> TRUE, DNSSdName |-> s_empty, IppSvcIndex |-> 0]
NotHanded == [handed |-> FALSE, services |-> <<>>]

DevIdle ==
    /\ pc = "idle" /\ conf = FALSE
    /\ UsbTransport = "nil" /\ HTTPProxy = "nil" /\ DNSSdPublisher = "nil"
    /\ listener = "nil" /\ State = NoState /\ info = s_empty
    /\ ippinfo = NilIppInfo /\ dnssdName = s_empty /\ dnssdServices = <<>>
    /\ err = "nil" /\ result = NoResult /\ published = NotHanded
    /\ calls = <<>> /\ nops = 0 /\ shutdownErr = "nil"

IppIdle == msg = <<>> /\ attrs = <<>> /\ ipc = "idle" /\ ret = <<>>

(***************************************************************************)
(* Decoder runs                                                            *)
(***************************************************************************)
\* IppService, lines 58-59: attrs := newIppDecoder(msg)
NewIppDecoderStep ==
    /\ ipc = "msg"
    /\ attrs' = newIppDecoder(msg)
    /\ ipc' = "attrs"
    /\ UNCHANGED <<msg, ret>>
    /\ UNCHANGED devvars

Finish(r) ==
    /\ ipc' = IF r.panic THEN "panicked" ELSE "returned"
    /\ ret' = r.val
    /\ UNCHANGED <<msg, attrs>>
    /\ UNCHANGED devvars

GetPaperMaxStep == ipc = "attrs" /\ Finish(getPaperMax(attrs))

\* Decode, lines 116-118: the DNS-SD name
StrSingleNameStep ==
    /\ ipc = "attrs"
    /\ Finish(strSingle(attrs, <<"printer-dns-sd-name", "printer-info",
                                 "printer-make-and-model">>))

DecodeStep == ipc = "attrs" /\ Finish(Decode(attrs))

InitPaper == msg \in PaperInputs /\ attrs = <<>> /\ ipc = "msg" /\ ret = <<>> /\ DevIdle
NextPaper == NewIppDecoderStep \/ GetPaperMaxStep
SpecPaper == InitPaper /\ [][NextPaper]_vars

InitName == msg \in NameInputs /\ attrs = <<>> /\ ipc = "msg" /\ ret = <<>> /\ DevIdle
NextName == NewIppDecoderStep \/ StrSingleNameStep
SpecName == InitName /\ [][NextName]_vars

InitDecode == msg \in DecodeInputs /\ attrs = <<>> /\ ipc = "msg" /\ ret = <<>> /\ DevIdle
NextDecode == NewIppDecoderStep \/ DecodeStep
SpecDecode == InitDecode /\ [][NextDecode]_vars

(***************************************************************************)
(* device.go: collaborators                                                *)
(***************************************************************************)
DevNames == {s_AcmeX1, s_Office}
StoredNames == {s_empty, s_AcmeX1, s_Office}
IppNames == {s_empty, s_AcmeX1, s_Lab}

Log(event) == Append(calls, event)

\* LoadDevState: never fails, returns the stored record or defaults
LoadDevState(stored) ==
    [DNSSdName |-> stored, DNSSdOverride |-> stored, HTTPPort |-> 60000]

\* DNSSdServices.Add
Add(svcs, svc) == Append(svcs, svc)

\* IppService as NewDevice calls it: on failure an error, no printer info
\* and no descriptor; on success the print descriptor is appended and its
\* index recorded (Go indices start at 0)
IppServiceResults(svcs, port) ==
    {[ippinfo |-> NilIppInfo, services |-> svcs, err |-> "errIpp"]}
    \cup
    {[ippinfo |-> [nil |-> FALSE, DNSSdName |-> n, IppSvcIndex |-> Len(svcs)],
      services |-> Add(svcs, [Type |-> "_ipp._tcp", Port |-> port,
                              Txt |-> Decode(newIppDecoder(SampleAttrs("plain"))).val.info.Txt]),
      err |-> "nil"] : n \in IppNames}

\* EsclService: on failure an error and no descriptor; on success the scan
\* descriptor is appended
EsclServiceResults(svcs, port) ==
    {[services |-> svcs, err |-> "errEscl"],
     [services |-> Add(svcs, [Type |-> "_uscan._tcp", Port |-> port,
                              Txt |-> TxtAdd(<<>>, "txtvers", s_1)]),
      err |-> "nil"]}

(***************************************************************************)
(* NewDevice                                                               *)
(***************************************************************************)
InitDev ==
    /\ pc = "start" /\ conf \in BOOLEAN
    /\ UsbTransport = "nil" /\ HTTPProxy = "nil" /\ DNSSdPublisher = "nil"
    /\ listener = "nil" /\ State = NoState /\ info = s_empty
    /\ ippinfo = NilIppInfo /\ dnssdName = s_empty /\ dnssdServices = <<>>
    /\ err = "nil" /\ result = NoResult /\ published = NotHanded
    /\ calls = <<>> /\ nops = 0 /\ shutdownErr = "nil"
    /\ IppIdle

\* lines 47-63: the USB transport, the device info, the persistent state
NewUsbTransportStep ==
    /\ pc = "start"
    /\ \/ /\ err' = "errTransport"
          /\ calls' = Log("NewUsbTransport.fail")
          /\ pc' = "ERROR"
          /\ UNCHANGED <<UsbTransport, info, State>>
       \/ \E fallback \in DevNames, stored \in StoredNames :
             /\ UsbTransport' = "live"
             /\ err' = "nil"
             /\ info' = fallback
             /\ State' = LoadDevState(stored)
             /\ calls' = Log("NewUsbTransport")
             /\ pc' = "listen"
    /\ UNCHANGED <<conf, HTTPProxy, DNSSdPublisher, listener, ippinfo, dnssdName,
                   dnssdServices, result, published, nops, shutdownErr>>
    /\ UNCHANGED ippvars

\* lines 65-72: the listener and the HTTP proxy
HTTPListenStep ==
    /\ pc = "listen"
    /\ \/ /\ err' = "errListen"
          /\ calls' = Log("HTTPListen.fail")
          /\ pc' = "ERROR"
          /\ UNCHANGED <<listener, HTTPProxy>>
       \/ /\ err' = "nil"
          /\ listener' = "live"
          /\ HTTPProxy' = "live"
          /\ calls' = calls \o <<"HTTPListen", "NewHTTPProxy">>
          /\ pc' = "ipp"
    /\ UNCHANGED <<conf, UsbTransport, DNSSdPublisher, State, info, ippinfo,
                   dnssdName, dnssdServices, result, published, nops, shutdownErr>>
    /\ UNCHANGED ippvars

IppFailureIsFatal(r) == IF r.err # "nil" THEN "ERROR" ELSE "name"

\* lines 81-83: an IPP error is logged and construction goes on
AfterIpp(r) == "name"

\* lines 74-85: the IPP query
IppServiceStep ==
    /\ pc = "ipp"
    /\ \E r \in IppServiceResults(dnssdServices, State.HTTPPort) :
          /\ ippinfo' = r.ippinfo
          /\ dnssdServices' = r.services
          /\ err' = r.err
          /\ calls' = Log(IF r.err = "nil" THEN "IppService" ELSE "IppService.fail")
          /\ pc' = AfterIpp(r)
    /\ UNCHANGED <<conf, UsbTransport, HTTPProxy, DNSSdPublisher, listener, State,
                   info, dnssdName, result, published, nops, shutdownErr>>
    /\ UNCHANGED ippvars

\* lines 87-92: the DNS-SD name
ResolveName(ii, fallback) == IF ~ii.nil THEN ii.DNSSdName ELSE fallback

NameChangedAlways(name, state) == TRUE

\* line 95: the state is updated if the name changed
NameChanged(name, state) == name # state.DNSSdName

\* lines 87-99: the name and the write-back of the state
ResolveNameStep ==
    /\ pc = "name"
    /\ dnssdName' = ResolveName(ippinfo, info)
    /\ IF NameChanged(dnssdName', State)
       THEN /\ State' = [State EXCEPT !.DNSSdName = dnssdName',
                                      !.DNSSdOverride = dnssdName']
            /\ calls' = Log("State.Save")
       ELSE UNCHANGED <<State, calls>>
    /\ pc' = "escl"
    /\ UNCHANGED <<conf, UsbTransport, HTTPProxy, DNSSdPublisher, listener, info,
                   ippinfo, dnssdServices, err, result, published, nops, shutdownErr>>
    /\ UNCHANGED ippvars

\* lines 101-109: the eSCL query
EsclServiceStep ==
    /\ pc = "escl"
    /\ \E r \in EsclServiceResults(dnssdServices, State.HTTPPort) :
          /\ dnssdServices' = r.services
          /\ err' = r.err
          /\ calls' = Log(IF r.err = "nil" THEN "EsclService" ELSE "EsclService.fail")
    /\ pc' = "scan"
    /\ UNCHANGED <<conf, UsbTransport, HTTPProxy, DNSSdPublisher, listener, State,
                   info, ippinfo, dnssdName, result, published, nops, shutdownErr>>
    /\ UNCHANGED ippvars

ScanFlagOnlyIfPresent(svcs, ii, e) ==
    IF ~ii.nil /\ e = "nil"
    THEN [svcs EXCEPT ![ii.IppSvcIndex + 1].Txt = TxtAdd(@, "Scan", s_T)]
    ELSE svcs

\* lines 111-118: the IPP descriptor learns whether there is a scanner
ScanFlag(svcs, ii, e) ==
    IF ~ii.nil
    THEN IF e = "nil"
         THEN [svcs EXCEPT ![ii.IppSvcIndex + 1].Txt = TxtAdd(@, "Scan", s_T)]
         ELSE [svcs EXCEPT ![ii.IppSvcIndex + 1].Txt = TxtAdd(@, "Scan", s_F)]
    ELSE svcs

ScanFlagStep ==
    /\ pc = "scan"
    /\ dnssdServices' = ScanFlag(dnssdServices, ippinfo, err)
    /\ pc' = "web"
    /\ UNCHANGED <<conf, UsbTransport, HTTPProxy, DNSSdPublisher, listener, State,
                   info, ippinfo, dnssdName, err, result, published, calls, nops, shutdownErr>>
    /\ UNCHANGED ippvars

AddWebIfNothingElse(svcs, port) ==
    IF svcs = <<>> THEN Add(svcs, [Type |-> "_http._tcp", Port |-> port, Txt |-> <<>>])
    ELSE svcs

\* lines 120-121: the web service is always advertised
AddWeb(svcs, port) == Add(svcs, [Type |-> "_http._tcp", Port |-> port, Txt |-> <<>>])

AddWebStep ==
    /\ pc = "web"
    /\ dnssdServices' = AddWeb(dnssdServices, State.HTTPPort)
    /\ pc' = "publish"
    /\ UNCHANGED <<conf, UsbTransport, HTTPProxy, DNSSdPublisher, listener, State,
                   info, ippinfo, dnssdName, err, result, published, calls, nops, shutdownErr>>
    /\ UNCHANGED ippvars

\* lines 123-140: the DNS-SD publisher and the return of the Device
PublishStep ==
    /\ pc = "publish"
    /\ IF conf
       THEN /\ DNSSdPublisher' = "live"
            /\ published' = [handed |-> TRUE, services |-> dnssdServices]
            /\ \/ /\ err' = "errPublish"
                  /\ calls' = calls \o <<"NewDNSSdPublisher", "Publish.fail">>
                  /\ pc' = "ERROR"
                  /\ UNCHANGED result
               \/ /\ err' = "nil"
                  /\ calls' = calls \o <<"NewDNSSdPublisher", "Publish">>
                  /\ pc' = "returned"
                  /\ result' = [dev |-> "dev", err |-> "nil"]
       ELSE /\ pc' = "returned"
            /\ result' = [dev |-> "dev", err |-> "nil"]
            /\ UNCHANGED <<DNSSdPublisher, published, err, calls>>
    /\ UNCHANGED <<conf, UsbTransport, HTTPProxy, listener, State, info, ippinfo,
                   dnssdName, dnssdServices, nops, shutdownErr>>
    /\ UNCHANGED ippvars

UnwindForgetsTransport(proxy, transport, lst) ==
    (IF proxy # "nil" THEN <<"HTTPProxy.Close">> ELSE <<>>)
    \o (IF lst # "nil" THEN <<"listener.Close">> ELSE <<>>)

UnwindListenerFirst(proxy, transport, lst) ==
    (IF proxy # "nil" THEN <<"HTTPProxy.Close">> ELSE <<>>)
    \o (IF lst # "nil" THEN <<"listener.Close">> ELSE <<>>)
    \o (IF transport # "nil" THEN <<"UsbTransport.Close">> ELSE <<>>)

\* lines 142-153: the calls of the ERROR label, in the order of the code
Unwind(proxy, transport, lst) ==
    (IF proxy # "nil" THEN <<"HTTPProxy.Close">> ELSE <<>>)
    \o (IF transport # "nil" THEN <<"UsbTransport.Close">> ELSE <<>>)
    \o (IF lst # "nil" THEN <<"listener.Close">> ELSE <<>>)

\* lines 142-156: the ERROR label
ErrorStep ==
    /\ pc = "ERROR"
    /\ calls' = calls \o Unwind(HTTPProxy, UsbTransport, listener)
    /\ result' = [dev |-> "nil", err |-> err]
    /\ pc' = "failed"
    /\ UNCHANGED <<conf, UsbTransport, HTTPProxy, DNSSdPublisher, listener, State,
                   info, ippinfo, dnssdName, dnssdServices, err, published, nops,
                   shutdownErr>>
    /\ UNCHANGED ippvars

(***************************************************************************)
(* Shutdown and Close                                                      *)
(***************************************************************************)
Teardown ==
    (IF DNSSdPublisher # "nil" THEN <<"DNSSdPublisher.Unpublish">> ELSE <<>>)
    \o (IF HTTPProxy # "nil" THEN <<"HTTPProxy.Close">> ELSE <<>>)

\* lines 161-177: the transport reference is kept
Shutdown ==
    /\ pc = "returned" /\ nops < MaxOps
    /\ nops' = nops + 1
    /\ DNSSdPublisher' = "nil"
    /\ HTTPProxy' = "nil"
    /\ IF UsbTransport # "nil"
       THEN /\ calls' = calls \o Teardown \o <<"UsbTransport.Shutdown">>
            /\ shutdownErr' \in {"nil", "ctxErr"}
       ELSE /\ calls' = calls \o Teardown
            /\ shutdownErr' = "nil"
    /\ UNCHANGED <<pc, conf, UsbTransport, listener, State, info, ippinfo,
                   dnssdName, dnssdServices, err, result, published>>
    /\ UNCHANGED ippvars

CloseKeepsProxy ==
    /\ pc = "returned" /\ nops < MaxOps
    /\ nops' = nops + 1
    /\ DNSSdPublisher' = "nil"
    /\ UsbTransport' = "nil"
    /\ calls' = calls \o Teardown
                 \o (IF UsbTransport # "nil" THEN <<"UsbTransport.Close">> ELSE <<>>)
    /\ UNCHANGED <<pc, conf, HTTPProxy, listener, State, info, ippinfo, dnssdName,
                   dnssdServices, err, result, published, shutdownErr>>
    /\ UNCHANGED ippvars

\* lines 180-195
Close ==
    /\ pc = "returned" /\ nops < MaxOps
    /\ nops' = nops + 1
    /\ DNSSdPublisher' = "nil"
    /\ HTTPProxy' = "nil"
    /\ UsbTransport' = "nil"
    /\ calls' = calls \o Teardown
                 \o (IF UsbTransport # "nil" THEN <<"UsbTransport.Close">> ELSE <<>>)
    /\ UNCHANGED <<pc, conf, listener, State, info, ippinfo, dnssdName,
                   dnssdServices, err, result, published, shutdownErr>>
    /\ UNCHANGED ippvars

NextDev ==
    \/ NewUsbTransportStep \/ HTTPListenStep \/ IppServiceStep \/ ResolveNameStep
    \/ EsclServiceStep \/ ScanFlagStep \/ AddWebStep \/ PublishStep \/ ErrorStep
    \/ Shutdown \/ Close

SpecDev == InitDev /\ [][NextDev]_vars

Init == InitDev
Next == NextDev
Spec == SpecDev

(***************************************************************************)
(* Properties                                                              *)
(***************************************************************************)
Count(s, e) == Cardinality({i \in 1..Len(s) : s[i] = e})
Has(e) == \E i \in 1..Len(calls) : calls[i] = e

ReleaseEvents == {"HTTPProxy.Close", "UsbTransport.Close", "listener.Close"}
AcquireEvents == {"NewUsbTransport", "HTTPListen", "NewHTTPProxy"}

ResourceOf(e) ==
    CASE e \in {"NewUsbTransport", "UsbTransport.Close"} -> "transport"
      [] e \in {"HTTPListen", "listener.Close"} -> "listener"
      [] OTHER -> "proxy"

IsRelease(e) == e \in ReleaseEvents
IsAcquire(e) == e \in AcquireEvents
Resources(s) == [i \in 1..Len(s) |-> ResourceOf(s[i])]
Released == Resources(SelectSeq(calls, IsRelease))
Acquired == Resources(SelectSeq(calls, IsAcquire))
Reverse(s) == [i \in 1..Len(s) |-> s[Len(s) + 1 - i]]
InSeq(x, s) == \E i \in 1..Len(s) : s[i] = x

\* C1: when the transport was acquired and the listener then failed, the
\* transport was closed exactly once, no Device was returned and the error
\* returned is the listener's error.
C1_ListenerRollback ==
    (pc = "failed" /\ Has("HTTPListen.fail")) =>
        /\ Has("NewUsbTransport")
        /\ Count(calls, "UsbTransport.Close") = 1
        /\ result = [dev |-> "nil", err |-> "errListen"]

C1_Witness == pc = "failed" /\ Has("HTTPListen.fail") /\ Has("UsbTransport.Close")

\* C2 (as claimed): on a constructed Device, whatever Shutdown and Close calls
\* are made, the advertiser gets at most one Unpublish, the proxy at most one
\* Close, and the transport at most one release operation (Shutdown or Close)
\* in total.
C2_NoDoubleRelease ==
    pc = "returned" =>
        /\ Count(calls, "DNSSdPublisher.Unpublish") <= 1
        /\ Count(calls, "HTTPProxy.Close") <= 1
        /\ Count(calls, "UsbTransport.Shutdown") + Count(calls, "UsbTransport.Close") <= 1

\* C2 (amended): the advertiser gets at most one Unpublish, the proxy at most
\* one Close, the transport at most one Close, and the transport gets no call
\* at all after its Close; Shutdown keeps the transport reference, so the
\* transport may get a Shutdown from every Shutdown call made before Close.
C2_ReleaseOnceUpToShutdown ==
    pc = "returned" =>
        /\ Count(calls, "DNSSdPublisher.Unpublish") <= 1
        /\ Count(calls, "HTTPProxy.Close") <= 1
        /\ Count(calls, "UsbTransport.Close") <= 1
        /\ \A i, j \in 1..Len(calls) :
              (i < j /\ calls[i] = "UsbTransport.Close") =>
                  calls[j] \notin {"UsbTransport.Shutdown", "UsbTransport.Close"}
        /\ (UsbTransport = "nil" <=> Has("UsbTransport.Close"))

C2_Witness ==
    /\ pc = "returned" /\ nops = 3
    /\ Count(calls, "UsbTransport.Shutdown") = 1
    /\ Count(calls, "UsbTransport.Close") = 1
    /\ Count(calls, "DNSSdPublisher.Unpublish") = 1
    /\ Count(calls, "HTTPProxy.Close") = 1

FatalFailed == pc = "failed" /\ (Has("HTTPListen.fail") \/ Has("Publish.fail"))
FailingError == IF Has("HTTPListen.fail") THEN "errListen" ELSE "errPublish"

\* C3 (as claimed): when listener acquisition or Publish fails, the resources
\* acquired so far are released in the reverse of their acquisition order,
\* each exactly once, and the failing step's error is returned with no Device.
C3_ReverseUnwind ==
    FatalFailed =>
        /\ Released = Reverse(Acquired)
        /\ result = [dev |-> "nil", err |-> FailingError]

\* C3 (amended): when listener acquisition or Publish fails, every resource
\* acquired so far is released exactly once, in the fixed order proxy, then
\* transport, then listener, and the failing step's error is returned with no
\* Device.
C3_FixedOrderUnwind ==
    FatalFailed =>
        /\ Released = SelectSeq(<<"proxy", "transport", "listener">>,
                                LAMBDA r : InSeq(r, Acquired))
        /\ result = [dev |-> "nil", err |-> FailingError]

C3_Witness ==
    /\ pc = "failed" /\ Has("Publish.fail")
    /\ Released = <<"proxy", "transport", "listener">>

IsWeb(svc) == svc.Type = "_http._tcp"
WebCount(svcs) == Len(SelectSeq(svcs, IsWeb))

C5_OneWebDescriptor ==
    /\ published.handed => WebCount(published.services) = 1
    /\ pc \in {"publish", "returned"} => WebCount(dnssdServices) = 1

C5_Witness ==
    /\ published.handed /\ Len(published.services) = 3
    /\ Has("IppService") /\ Has("EsclService")

IsScan(kv) == kv.Key = "Scan"
ScanFields(svc) == SelectSeq(svc.Txt, IsScan)
ScanQueried == (Has("EsclService") \/ Has("EsclService.fail")) /\ pc # "scan"

\* C6: once the scan query is over, the print descriptor (the one at the
\* recorded index), when there is one, has exactly one Scan field, "T" after
\* a successful scan query and "F" after a failed one, and no other
\* descriptor has a Scan field.
C6_ScanFlag ==
    ScanQueried =>
        \A i \in 1..Len(dnssdServices) :
            IF ~ippinfo.nil /\ i = ippinfo.IppSvcIndex + 1
            THEN /\ dnssdServices[i].Type = "_ipp._tcp"
                 /\ ScanFields(dnssdServices[i]) =
                        <<[Key |-> "Scan",
                           Value |-> IF Has("EsclService") THEN s_T ELSE s_F]>>
            ELSE ScanFields(dnssdServices[i]) = <<>>

C6_Witness ==
    /\ ScanQueried /\ ~ippinfo.nil /\ Has("EsclService.fail")
    /\ ScanFields(dnssdServices[ippinfo.IppSvcIndex + 1]) = <<[Key |-> "Scan", Value |-> s_F]>>

\* C7: the name step writes the state back (both name fields set to the
\* resolved name, Save called once) exactly when the resolved name differs
\* from the stored one, and leaves the state alone otherwise; the resolved
\* name is the print query's name when it gave a result, else the fallback
\* name; no other step of the device touches the stored names or calls Save.
C7_WriteBackOnlyOnChange ==
    [][ LET resolved == IF ~ippinfo.nil THEN ippinfo.DNSSdName ELSE info
        IN  /\ pc = "name" =>
                  /\ dnssdName' = resolved
                  /\ IF resolved # State.DNSSdName
                     THEN /\ State' = [DNSSdName |-> resolved,
                                       DNSSdOverride |-> resolved,
                                       HTTPPort |-> State.HTTPPort]
                          /\ calls' = Append(calls, "State.Save")
                     ELSE State' = State /\ calls' = calls
            /\ pc \notin {"name", "start"} =>
                  /\ State' = State
                  /\ Count(calls', "State.Save") = Count(calls, "State.Save")
      ]_vars

C7_Witness ==
    /\ pc = "escl" /\ ~ippinfo.nil /\ ~Has("State.Save")
    /\ State.DNSSdName = ippinfo.DNSSdName /\ dnssdName = ippinfo.DNSSdName
    /\ dnssdName # info

\* The entries of "media-size-supported" the decoder looks at
Entries ==
    IF "media-size-supported" \in DOMAIN attrs
    THEN IF Len(attrs["media-size-supported"]) > 0
            /\ attrs["media-size-supported"][1].T = "Collection"
         THEN attrs["media-size-supported"]
         ELSE <<>>
    ELSE <<>>

\* The values an entry gives for a dimension: an integer counts as itself, a
\* range as its upper bound
DimValues(entry, name) ==
    LET a == dimAttr(entry.V, name)
    IN  IF Len(a.Values) = 0 THEN {}
        ELSE IF a.Values[1].T = "Integer" THEN {a.Values[1].V}
        ELSE IF a.Values[1].T = "Range" THEN {a.Values[1].V.Upper}
        ELSE {}

SetMax(S) == CHOOSE m \in S : \A n \in S : n <= m

\* The maximum tracked for a dimension: it starts at zero
TrackedMax(name) ==
    SetMax({0} \cup UNION {DimValues(Entries[i], name) : i \in 1..Len(Entries)})

xmax == TrackedMax("x-dimension")
ymax == TrackedMax("y-dimension")

\* C8: getPaperMax returns nothing when xmax = 0 or ymax = 0, and otherwise
\* the first match of: (>43200, >55900) ">isoC-A2"; (>=43200, >=55900)
\* "isoC-A2"; (>=27900, >=43200) "tabloid-A3"; (>=21600, >=35400) "legal-A4";
\* else "<legal-A4".
C8_PaperMax ==
    ipc = "returned" =>
        /\ (xmax = 0 \/ ymax = 0) <=> ret = s_empty
        /\ (xmax # 0 /\ ymax # 0) =>
              /\ ret = s_gt_isoC_A2 <=> (xmax > 43200 /\ ymax > 55900)
              /\ ret = s_isoC_A2 <=>
                    (xmax >= 43200 /\ ymax >= 55900 /\ ~(xmax > 43200 /\ ymax > 55900))
              /\ ret = s_tabloid_A3 <=>
                    (xmax >= 27900 /\ ymax >= 43200 /\ ~(xmax >= 43200 /\ ymax >= 55900))
              /\ ret = s_legal_A4 <=>
                    (xmax >= 21600 /\ ymax >= 35400 /\ ~(xmax >= 27900 /\ ymax >= 43200))
              /\ ret = s_lt_legal_A4 <=> ~(xmax >= 21600 /\ ymax >= 35400)
        /\ (xmax = 21600 /\ ymax = 35400) => ret = s_legal_A4
        /\ (xmax = 21599 /\ ymax = 35400) => ret = s_lt_legal_A4
        /\ (xmax = 43201 /\ ymax = 55901) => ret = s_gt_isoC_A2

\* the two maxima come from different entries
C8_Witness ==
    /\ ipc = "returned" /\ ret = s_legal_A4
    /\ xmax = 21600 /\ ymax = 35400
    /\ Len(Entries) = 2
    /\ DimValues(Entries[1], "y-dimension") = {}
    /\ DimValues(Entries[2], "x-dimension") = {}

NameOrder == <<"printer-dns-sd-name", "printer-info", "printer-make-and-model">>
PresentNames == SelectSeq(NameOrder, LAMBDA n : n \in DOMAIN attrs)

\* C9: name resolution returns; with none of the three name attributes in
\* the store it returns the empty string, and otherwise the first of them
\* that is in the store wins (its first string is the name).
C9_NameResolution ==
    ipc \in {"returned", "panicked"} =>
        /\ ipc = "returned"
        /\ PresentNames = <<>> => ret = s_empty
        /\ (/\ PresentNames # <<>>
            /\ Len(attrs[PresentNames[1]]) > 0
            /\ attrs[PresentNames[1]][1].T = "String") =>
               ret = attrs[PresentNames[1]][1].V

\* C10: Decode returns a descriptor for every attribute store, also one with
\* an attribute without values or with values of mixed types.
C10_DecodeTotal == ipc # "panicked"

====
